---- MODULE Spec2Model ----
(***************************************************************************)
(* FreeCell (joshuamkite/freecell): the card model, the deal, the move     *)
(* rules, the auto-play policy and the game session (reducer, selection,   *)
(* auto-play timers and the card animation) as one state machine.          *)
(*                                                                         *)
(* Indices are 0-based as in the TypeScript source: tableau columns 0..7,  *)
(* free cells 0..3, foundation slots 0..3 (hearts, diamonds, clubs,        *)
(* spades).  A JavaScript array is a function on 0..n-1 where its length   *)
(* is fixed (tableau, freeCells) and a sequence where it grows and shrinks *)
(* (a column, a foundation pile, the history).                             *)
(***************************************************************************)
EXTENDS Integers, Sequences, FiniteSets, TLC

(***************************************************************************)
(* Bounds of the model.                                                    *)
(*   NumRanks       ranks per suit of the deck that is dealt (13 in the    *)
(*                  program; the deck is createDeck's first NumRanks       *)
(*                  ranks, so the deal, the rules and the policy are the   *)
(*                  program's on a shorter deck)                           *)
(*   MaxGameNumber  game numbers the user may deal: 1..MaxGameNumber       *)
(*   MaxUserActions user inputs (clicks, double-clicks, undo, new game)    *)
(*                  in a run whose inputs all arrive while auto-play is    *)
(*                  idle                                                   *)
(*   MaxRacingActions user inputs in a run where they may arrive at any    *)
(*                  moment, also between a timer and its animation's end   *)
(*   MaxTimers      auto-play timeouts counted as pending at one time      *)
(* Drag and drop is not modelled apart from clicks: handleDrop makes the   *)
(* same tryMove call as a click on the destination.                        *)
(***************************************************************************)
NumRanks == 3
MaxGameNumber == 2
MaxUserActions == 3
MaxRacingActions == 2
MaxTimers == 1

(***************************************************************************)
(* Program constants.                                                      *)
(***************************************************************************)
TABLEAU_COLUMN_COUNT == 8
FREE_CELL_COUNT == 4
FOUNDATION_COUNT == 4
AUTO_MOVE_SAFE_RANK_OFFSET == 2
LAST_ITEM_INDEX_OFFSET == 1
LcgMultiplierHigh == 3
LcgMultiplierLow == 17405
LcgIncrementHigh == 38
LcgIncrementLow == 40643
Word16 == 65536
RandMask == 32768
DealRows == 7
ShortRow == 6
ShortRowColumns == 4

(***************************************************************************)
(* Card model (types/card.ts).                                             *)
(***************************************************************************)
Suits == <<"clubs", "diamonds", "hearts", "spades">>

AllRanks == <<"ace", "2", "3", "4", "5", "6", "7", "8", "9", "10",
              "jack", "queen", "king">>

Ranks == SubSeq(AllRanks, 1, NumRanks)

getCardColor(suit) ==
    IF suit = "hearts" \/ suit = "diamonds" THEN "red" ELSE "black"

getRankValue(rank) ==
    CASE rank = "ace" -> 1
      [] rank = "2" -> 2
      [] rank = "3" -> 3
      [] rank = "4" -> 4
      [] rank = "5" -> 5
      [] rank = "6" -> 6
      [] rank = "7" -> 7
      [] rank = "8" -> 8
      [] rank = "9" -> 9
      [] rank = "10" -> 10
      [] rank = "jack" -> 11
      [] rank = "queen" -> 12
      [] rank = "king" -> 13

\* `${rank}_of_${suit}`: one id per (rank, suit) pair.
createCardId(suit, rank) == <<rank, "_of_", suit>>

MakeCard(suit, rank) ==
    [suit |-> suit, rank |-> rank, id |-> createCardId(suit, rank)]

\* JavaScript's null / undefined in a slot that holds a Card otherwise.
Null == [suit |-> "none", rank |-> "none", id |-> <<>>]

\* createDeck: ranks in the outer loop, suits (CDHS) in the inner loop.
createDeck ==
    [k \in 1..(Len(Ranks) * Len(Suits)) |->
        MakeCard(Suits[((k - 1) % Len(Suits)) + 1],
                 Ranks[((k - 1) \div Len(Suits)) + 1])]

AllCards == {createDeck[k] : k \in 1..Len(createDeck)}

\* createDeck with all thirteen ranks: the deck the program deals.
createFullDeck ==
    [k \in 1..(Len(AllRanks) * Len(Suits)) |->
        MakeCard(Suits[((k - 1) % Len(Suits)) + 1],
                 AllRanks[((k - 1) \div Len(Suits)) + 1])]

(***************************************************************************)
(* The shuffle (utils/freecellRng.ts).  The 32-bit seed is kept as two     *)
(* 16-bit halves (hi, lo), so that seed * 214013 + 2531011 modulo 2^32 is  *)
(* computed without leaving the checker's integers:                        *)
(*   214013 = 3 * 2^16 + 17405,  2531011 = 38 * 2^16 + 40643.              *)
(***************************************************************************)
NextSeedLowNoIncrement(lo) == (lo * LcgMultiplierLow) % Word16

NextSeedLow(lo) == (lo * LcgMultiplierLow + LcgIncrementLow) % Word16

NextSeedHighNoCarry(hi, lo) ==
    (hi * LcgMultiplierLow + lo * LcgMultiplierHigh + LcgIncrementHigh) % Word16

NextSeedHigh(hi, lo) ==
    (hi * LcgMultiplierLow + lo * LcgMultiplierHigh + LcgIncrementHigh
       + ((lo * LcgMultiplierLow + LcgIncrementLow) \div Word16)) % Word16

Swap(deck, a, b) == [deck EXCEPT ![a] = deck[b], ![b] = deck[a]]

Reverse(s) == [k \in 1..Len(s) |-> s[Len(s) + 1 - k]]

RECURSIVE ShuffleLoop(_, _, _, _, _)
ShuffleLoop(deck, hi, lo, large, i) ==
    IF i >= Len(deck) THEN deck
    ELSE LET cardsLeft == Len(deck) - i
             hi2 == NextSeedHigh(hi, lo)
             lo2 == NextSeedLow(lo)
             \* (seed >> 16) & 0x7fff
             rand == hi2 % RandMask
             rect == IF ~large THEN rand % cardsLeft
                     ELSE (rand + RandMask) % cardsLeft
         IN  ShuffleLoop(Swap(deck, rect + 1, cardsLeft), hi2, lo2, large, i + 1)

\* shuffleFreeCellDeck on a deal number given as its 16-bit halves (deal
\* numbers from 2^31 on are beyond the checker's integers).
\* dealNum < 0x80000000 is "the high half is below 0x8000".
shuffleFreeCellDeckHalves(array, high, low) ==
    Reverse(ShuffleLoop(array, high, low, high >= RandMask, 0))

shuffleFreeCellDeck(array, dealNum) ==
    shuffleFreeCellDeckHalves(array, dealNum \div Word16, dealNum % Word16)

(***************************************************************************)
(* The deal (game/freecellLogic.ts, dealCards).                            *)
(***************************************************************************)
Columns == 0..(TABLEAU_COLUMN_COUNT - 1)
Cells == 0..(FREE_CELL_COUNT - 1)
Slots == 0..(FOUNDATION_COUNT - 1)

\* The order of the foundation slots on the board and in every
\* ['hearts', 'diamonds', 'clubs', 'spades'][index] lookup.
FoundationSuits == <<"hearts", "diamonds", "clubs", "spades">>

SuitAt(index) == FoundationSuits[index + 1]

\* The index of a suit in FoundationSuits (0-based).
SlotOf(suit) == CHOOSE j \in Slots : SuitAt(j) = suit

RECURSIVE DealRowRepeatsCard(_, _, _, _, _)
DealRowRepeatsCard(tableau, shuffledDeck, row, col, cardIndex) ==
    IF col >= TABLEAU_COLUMN_COUNT \/ cardIndex >= Len(shuffledDeck)
    THEN [tableau |-> tableau, cardIndex |-> cardIndex + TABLEAU_COLUMN_COUNT]
    ELSE DealRowRepeatsCard(
             [tableau EXCEPT ![col] = Append(@, shuffledDeck[cardIndex + 1])],
             shuffledDeck, row, col + 1, cardIndex)

\* for col 0..7: skip row 6 for col >= 4, else push shuffledDeck[cardIndex++].
\* The result is the tableau and cardIndex after the row.  A deck shorter
\* than 52 cards runs out before the loops end; the model stops dealing
\* there.
RECURSIVE DealRow(_, _, _, _, _)
DealRow(tableau, shuffledDeck, row, col, cardIndex) ==
    IF col >= TABLEAU_COLUMN_COUNT \/ cardIndex >= Len(shuffledDeck)
    THEN [tableau |-> tableau, cardIndex |-> cardIndex]
    ELSE IF row = ShortRow /\ col >= ShortRowColumns
         THEN DealRow(tableau, shuffledDeck, row, col + 1, cardIndex)
    ELSE DealRow([tableau EXCEPT ![col] = Append(@, shuffledDeck[cardIndex + 1])],
                 shuffledDeck, row, col + 1, cardIndex + 1)

\* for row 0..6: the row's loop over the columns.
RECURSIVE DealLoop(_, _, _, _)
DealLoop(tableau, shuffledDeck, row, cardIndex) ==
    IF row >= DealRows \/ cardIndex >= Len(shuffledDeck) THEN tableau
    ELSE LET dealt == DealRow(tableau, shuffledDeck, row, 0, cardIndex)
         IN  DealLoop(dealt.tableau, shuffledDeck, row + 1, dealt.cardIndex)

\* dealCards on a given deck.
dealCardsFrom(deck, gameNumber) ==
    LET shuffledDeck == shuffleFreeCellDeck(deck, gameNumber)
    IN  [tableau     |-> DealLoop([c \in Columns |-> <<>>], shuffledDeck, 0, 0),
         freeCells   |-> [i \in Cells |-> Null],
         foundations |-> [hearts |-> <<>>, diamonds |-> <<>>,
                          clubs |-> <<>>, spades |-> <<>>],
         gameNumber  |-> gameNumber,
         moveHistory |-> <<>>,
         isWon       |-> FALSE]

dealCards(gameNumber) == dealCardsFrom(createDeck, gameNumber)

(***************************************************************************)
(* The move rules (game/freecellLogic.ts).                                 *)
(***************************************************************************)
canMoveToTableauAnyColour(card, targetColumn) ==
    IF Len(targetColumn) = 0 THEN TRUE
    ELSE getRankValue(card.rank)
            = getRankValue(targetColumn[Len(targetColumn)].rank) - 1

canMoveToTableau(card, targetColumn) ==
    IF Len(targetColumn) = 0 THEN TRUE
    ELSE LET targetCard == targetColumn[Len(targetColumn)]
             cardValue == getRankValue(card.rank)
             targetValue == getRankValue(targetCard.rank)
         IN  /\ cardValue = targetValue - 1
             /\ getCardColor(card.suit) # getCardColor(targetCard.suit)

canMoveToFoundationAnySuit(card, foundation) ==
    IF Len(foundation) = 0 THEN card.rank = "ace"
    ELSE getRankValue(card.rank) = getRankValue(foundation[Len(foundation)].rank) + 1

canMoveToFoundation(card, foundation) ==
    IF Len(foundation) = 0 THEN card.rank = "ace"
    ELSE LET topCard == foundation[Len(foundation)]
             cardValue == getRankValue(card.rank)
             topValue == getRankValue(topCard.rank)
         IN  /\ card.suit = topCard.suit
             /\ cardValue = topValue + 1

getMaxMovableCardsCountingTarget(emptyFreeCells, emptyColumns, excludeTargetColumn) ==
    (1 + emptyFreeCells) * 2^emptyColumns

\* (1 + empty free cells) * 2^(empty columns), one empty column less when
\* excludeTargetColumn is set.
getMaxMovableCards(emptyFreeCells, emptyColumns, excludeTargetColumn) ==
    LET effectiveEmptyColumns ==
            IF excludeTargetColumn
            THEN (IF emptyColumns - 1 > 0 THEN emptyColumns - 1 ELSE 0)
            ELSE emptyColumns
    IN  (1 + emptyFreeCells) * 2^effectiveEmptyColumns

\* startIndex counts from 0, as in the program.
canMoveCardSequence(sourceColumn, startIndex, gameState) ==
    LET cardsToMove == SubSeq(sourceColumn, startIndex + 1, Len(sourceColumn))
        emptyFreeCells == Cardinality({i \in Cells : gameState.freeCells[i] = Null})
        emptyColumns == Cardinality({c \in Columns : Len(gameState.tableau[c]) = 0})
        maxMovable == getMaxMovableCards(emptyFreeCells, emptyColumns, TRUE)
    IN  /\ \A i \in 1..(Len(cardsToMove) - 1) :
              canMoveToTableau(cardsToMove[i + 1], <<cardsToMove[i]>>)
        /\ Len(cardsToMove) <= maxMovable

\* All foundations hold a whole suit (13 cards in the program).
checkWinThreeSuits(gameState) ==
    /\ Len(gameState.foundations.hearts) = NumRanks
    /\ Len(gameState.foundations.diamonds) = NumRanks
    /\ Len(gameState.foundations.clubs) = NumRanks

checkWin(gameState) ==
    /\ Len(gameState.foundations.hearts) = NumRanks
    /\ Len(gameState.foundations.diamonds) = NumRanks
    /\ Len(gameState.foundations.clubs) = NumRanks
    /\ Len(gameState.foundations.spades) = NumRanks

\* array[array.length - LAST_ITEM_INDEX_OFFSET], undefined on an empty array.
LastOf(s) == IF Len(s) = 0 THEN Null ELSE s[Len(s) + 1 - LAST_ITEM_INDEX_OFFSET]

PopKeepsCard(s) == s

\* array.pop() / array.slice(0, -1)
Pop(s) == IF Len(s) = 0 THEN s ELSE SubSeq(s, 1, Len(s) - LAST_ITEM_INDEX_OFFSET)

Loc(type, index) == [type |-> type, index |-> index]

(***************************************************************************)
(* tryMove (hooks/useDragAndDrop.ts and components/GameBoard.tsx): the     *)
(* three destination blocks in the order of the source, each guarded by    *)
(* the `moved` flag of the blocks before it.  The result is the flag and   *)
(* the copy newState (handed to updateGameState only when moved).          *)
(***************************************************************************)
TryMoveToTableauNoIdCheck(gameState, from, to) ==
    IF canMoveToTableau(from.card, gameState.tableau[to.index])
    THEN [moved |-> TRUE,
          newState |-> [gameState EXCEPT !.tableau[to.index] = Append(@, from.card)]]
    ELSE [moved |-> FALSE, newState |-> gameState]

TryMoveToTableau(gameState, from, to) ==
    LET targetColumn == gameState.tableau[to.index]
        fi == from.location.index
    IN  IF ~canMoveToTableau(from.card, targetColumn)
        THEN [moved |-> FALSE, newState |-> gameState]
        ELSE IF /\ from.location.type = "tableau"
                /\ LastOf(gameState.tableau[fi]).id = from.card.id
        THEN [moved |-> TRUE,
              newState |->
                [gameState EXCEPT
                   !.tableau = [[@ EXCEPT ![fi] = Pop(@)]
                                   EXCEPT ![to.index] = Append(targetColumn, from.card)]]]
        ELSE IF /\ from.location.type = "freecell"
                /\ gameState.freeCells[fi].id = from.card.id
        THEN [moved |-> TRUE,
              newState |->
                [gameState EXCEPT
                   !.freeCells[fi] = Null,
                   !.tableau[to.index] = Append(targetColumn, from.card)]]
        ELSE IF /\ from.location.type = "foundation"
                /\ LastOf(gameState.foundations[SuitAt(fi)]).id = from.card.id
        THEN [moved |-> TRUE,
              newState |->
                [gameState EXCEPT
                   !.foundations[SuitAt(fi)] = Pop(@),
                   !.tableau[to.index] = Append(targetColumn, from.card)]]
        ELSE [moved |-> FALSE, newState |-> gameState]

TryMoveToFreeCellOverwrite(gameState, from, to) ==
    [moved |-> TRUE,
     newState |-> [gameState EXCEPT !.freeCells[to.index] = from.card]]

TryMoveToFreeCell(gameState, from, to) ==
    LET fi == from.location.index
    IN  IF gameState.freeCells[to.index] # Null
        THEN [moved |-> FALSE, newState |-> gameState]
        ELSE IF /\ from.location.type = "tableau"
                /\ LastOf(gameState.tableau[fi]).id = from.card.id
        THEN [moved |-> TRUE,
              newState |->
                [gameState EXCEPT
                   !.tableau[fi] = Pop(@),
                   !.freeCells[to.index] = from.card]]
        ELSE IF /\ from.location.type = "foundation"
                /\ LastOf(gameState.foundations[SuitAt(fi)]).id = from.card.id
        THEN [moved |-> TRUE,
              newState |->
                [gameState EXCEPT
                   !.foundations[SuitAt(fi)] = Pop(@),
                   !.freeCells[to.index] = from.card]]
        ELSE [moved |-> FALSE, newState |-> gameState]

TryMoveToFoundationKeepsSource(gameState, from, to) ==
    IF /\ canMoveToFoundation(from.card, gameState.foundations[SuitAt(to.index)])
       /\ from.location.type = "tableau"
       /\ LastOf(gameState.tableau[from.location.index]).id = from.card.id
    THEN [moved |-> TRUE,
          newState |-> [gameState EXCEPT
                          !.foundations[SuitAt(to.index)] = Append(@, from.card)]]
    ELSE [moved |-> FALSE, newState |-> gameState]

TryMoveToFoundation(gameState, from, to) ==
    LET suit == SuitAt(to.index)
        fi == from.location.index
    IN  IF ~canMoveToFoundation(from.card, gameState.foundations[suit])
        THEN [moved |-> FALSE, newState |-> gameState]
        ELSE IF /\ from.location.type = "tableau"
                /\ LastOf(gameState.tableau[fi]).id = from.card.id
        THEN [moved |-> TRUE,
              newState |->
                [gameState EXCEPT
                   !.tableau[fi] = Pop(@),
                   !.foundations[suit] = Append(@, from.card)]]
        ELSE IF /\ from.location.type = "freecell"
                /\ gameState.freeCells[fi].id = from.card.id
        THEN [moved |-> TRUE,
              newState |->
                [gameState EXCEPT
                   !.freeCells[fi] = Null,
                   !.foundations[suit] = Append(@, from.card)]]
        ELSE [moved |-> FALSE, newState |-> gameState]

tryMove(gameState, from, to) ==
    LET r1 == IF to.type = "tableau"
              THEN TryMoveToTableau(gameState, from, to)
              ELSE [moved |-> FALSE, newState |-> gameState]
        r2 == IF to.type = "freecell" /\ ~r1.moved
              THEN TryMoveToFreeCell(r1.newState, from, to)
              ELSE r1
        r3 == IF to.type = "foundation" /\ ~r2.moved
              THEN TryMoveToFoundation(r2.newState, from, to)
              ELSE r2
    IN  r3

(***************************************************************************)
(* performMove (hooks/useCardAnimation.ts): the move of the top card of a  *)
(* pile named by (fromPile, fromIndex).  valid = FALSE stands for the      *)
(* null result.                                                            *)
(***************************************************************************)
RemoveFromSource(state, fromPile, fromIndex) ==
    IF fromPile = "freecell"
    THEN [state EXCEPT !.freeCells[fromIndex] = Null]
    ELSE IF fromPile = "foundation"
    THEN [state EXCEPT !.foundations[SuitAt(fromIndex)] = Pop(@)]
    ELSE [state EXCEPT !.tableau[fromIndex] = Pop(@)]

performMove(state, fromPile, fromIndex, toPile, toIndex) ==
    LET cardToMove ==
            IF fromPile = "freecell" THEN state.freeCells[fromIndex]
            ELSE IF fromPile = "foundation"
            THEN LastOf(state.foundations[SuitAt(fromIndex)])
            ELSE LastOf(state.tableau[fromIndex])
        isValid ==
            IF toPile = "foundation"
            THEN canMoveToFoundation(cardToMove, state.foundations[SuitAt(toIndex)])
            ELSE IF toPile = "tableau"
            THEN canMoveToTableau(cardToMove, state.tableau[toIndex])
            ELSE IF toPile = "freecell"
            THEN state.freeCells[toIndex] = Null
            ELSE FALSE
        removed == RemoveFromSource(state, fromPile, fromIndex)
    IN  IF cardToMove = Null THEN [valid |-> FALSE, newState |-> state]
        ELSE IF ~isValid THEN [valid |-> FALSE, newState |-> state]
        ELSE IF toPile = "foundation"
        THEN [valid |-> TRUE,
              newState |-> [removed EXCEPT
                              !.foundations[SuitAt(toIndex)] = Append(@, cardToMove)]]
        ELSE IF toPile = "tableau"
        THEN [valid |-> TRUE,
              newState |-> [removed EXCEPT
                              !.tableau[toIndex] = Append(@, cardToMove)]]
        ELSE [valid |-> TRUE,
              newState |-> [removed EXCEPT !.freeCells[toIndex] = cardToMove]]

(***************************************************************************)
(* The auto-play policy (hooks/useAutoPlay.ts, tryAutoPlaySingleCard).     *)
(***************************************************************************)
Min2(a, b) == IF a <= b THEN a ELSE b

getMinOppositeColorRank(state, suit) ==
    LET isRed == suit = "hearts" \/ suit = "diamonds"
        oppositeSuits == IF isRed THEN <<"clubs", "spades">>
                         ELSE <<"hearts", "diamonds">>
    IN  Min2(Len(state.foundations[oppositeSuits[1]]),
             Len(state.foundations[oppositeSuits[2]]))

isSafeToAutoMoveAnyRank(state, card) ==
    getRankValue(card.rank) = Len(state.foundations[card.suit]) + 1

\* MIN_GAME_NUMBER (= 1) is the source's "+ 1" here.
isSafeToAutoMove(state, card) ==
    LET cardRankValue == getRankValue(card.rank)
        currentFoundationRank == Len(state.foundations[card.suit])
        minOppositeRank == getMinOppositeColorRank(state, card.suit)
    IN  /\ cardRankValue = currentFoundationRank + 1
        /\ cardRankValue <= minOppositeRank + AUTO_MOVE_SAFE_RANK_OFFSET

\* The condition of both loops of tryAutoPlaySingleCard.
AutoPlayable(state, card) ==
    /\ card # Null
    /\ canMoveToFoundation(card, state.foundations[card.suit])
    /\ isSafeToAutoMove(state, card)

\* The first index of a set of indices, as a for loop finds it.
FirstOf(S) == CHOOSE i \in S : \A j \in S : i <= j

AutoFreeCells(state) == {i \in Cells : AutoPlayable(state, state.freeCells[i])}

AutoColumns(state) ==
    {i \in Columns : /\ Len(state.tableau[i]) > 0
                     /\ AutoPlayable(state, LastOf(state.tableau[i]))}

tryAutoPlaySingleCardColumnsFirst(state) ==
    IF AutoColumns(state) # {}
    THEN LET i == FirstOf(AutoColumns(state))
             card == LastOf(state.tableau[i])
         IN  [state EXCEPT !.tableau[i] = Pop(@),
                           !.foundations[card.suit] = Append(@, card)]
    ELSE IF AutoFreeCells(state) # {}
    THEN LET i == FirstOf(AutoFreeCells(state))
             card == state.freeCells[i]
         IN  [state EXCEPT !.freeCells[i] = Null,
                           !.foundations[card.suit] = Append(@, card)]
    ELSE state

\* Returns the state it was given when no card moves.
tryAutoPlaySingleCard(state) ==
    IF AutoFreeCells(state) # {}
    THEN LET i == FirstOf(AutoFreeCells(state))
             card == state.freeCells[i]
         IN  [state EXCEPT !.freeCells[i] = Null,
                           !.foundations[card.suit] = Append(@, card)]
    ELSE IF AutoColumns(state) # {}
    THEN LET i == FirstOf(AutoColumns(state))
             card == LastOf(state.tableau[i])
         IN  [state EXCEPT !.tableau[i] = Pop(@),
                           !.foundations[card.suit] = Append(@, card)]
    ELSE state

(***************************************************************************)
(* detectAutoPlayMove (hooks/useCardAnimation.ts): which card moved        *)
(* between two states, as (fromPile, fromIndex, toPile, toIndex);          *)
(* found = FALSE stands for the null result.                               *)
(***************************************************************************)
GainedBy(oldState, newState, j, card) ==
    /\ Len(newState.foundations[SuitAt(j)]) > Len(oldState.foundations[SuitAt(j)])
    /\ LastOf(newState.foundations[SuitAt(j)]).id = card.id

DetectedCells(oldState, newState) ==
    {i \in Cells : /\ oldState.freeCells[i] # Null
                   /\ newState.freeCells[i] = Null
                   /\ \E j \in Slots :
                         GainedBy(oldState, newState, j, oldState.freeCells[i])}

DetectedColumns(oldState, newState) ==
    {c \in Columns : /\ Len(oldState.tableau[c]) > Len(newState.tableau[c])
                     /\ \E j \in Slots :
                           GainedBy(oldState, newState, j, LastOf(oldState.tableau[c]))}

NoMove == [found |-> FALSE, fromPile |-> "none", fromIndex |-> 0,
           toPile |-> "none", toIndex |-> 0]

detectAutoPlayMove(oldState, newState) ==
    IF DetectedCells(oldState, newState) # {}
    THEN LET i == FirstOf(DetectedCells(oldState, newState))
         IN  [found |-> TRUE, fromPile |-> "freecell", fromIndex |-> i,
              toPile |-> "foundation",
              toIndex |-> FirstOf({j \in Slots :
                              GainedBy(oldState, newState, j, oldState.freeCells[i])})]
    ELSE IF DetectedColumns(oldState, newState) # {}
    THEN LET c == FirstOf(DetectedColumns(oldState, newState))
         IN  [found |-> TRUE, fromPile |-> "tableau", fromIndex |-> c,
              toPile |-> "foundation",
              toIndex |-> FirstOf({j \in Slots :
                              GainedBy(oldState, newState, j, LastOf(oldState.tableau[c]))})]
    ELSE NoMove

(***************************************************************************)
(* The session reducer (hooks/useGameState.ts, gameReducer), on the pair   *)
(* (current, history).                                                     *)
(***************************************************************************)
ReduceUpdateStateNoPush(state, newState) ==
    [current |-> newState, history |-> state.history]

ReduceUpdateState(state, newState) ==
    [current |-> newState, history |-> Append(state.history, state.current)]

ReduceUndoKeepsEntry(state) ==
    IF Len(state.history) = 0 THEN state
    ELSE [current |-> state.history[Len(state.history)],
          history |-> state.history]

ReduceUndo(state) ==
    IF Len(state.history) = 0 THEN state
    ELSE [current |-> state.history[Len(state.history) + 1 - LAST_ITEM_INDEX_OFFSET],
          history |-> SubSeq(state.history, 1, Len(state.history) - LAST_ITEM_INDEX_OFFSET)]

ReduceNewGameKeepsHistory(state, initialState) ==
    [current |-> initialState, history |-> state.history]

ReduceNewGame(state, initialState) ==
    [current |-> initialState, history |-> <<>>]

(***************************************************************************)
(* The session (components/GameBoard.tsx).                                 *)
(*   current, history    the reducer's state                               *)
(*   currentGameNumber   the game number the header shows                  *)
(*   selectedCard        <<>> (null) or <<[card, location]>>               *)
(*   autoPlayTimers      pending setTimeout callbacks of autoPlayRecursive *)
(*   animatingCards      <<>> (null) or <<[newState]>>: the animation in   *)
(*                       flight and the state its onComplete will adopt    *)
(*   userActions         user inputs so far (bounds the run)               *)
(*   patient             every input so far was made while auto-play was   *)
(*                       idle (bounds the run)                             *)
(*   lastCall            the handler that ran last and what it decided     *)
(*   inputValue          the text of the game-number input, a sequence of  *)
(*                       characters                                        *)
(*   revertTimer         the pending 20-second revert timeout with the     *)
(*                       game number its callback captured, or <<>>        *)
(*   probe               the rule function called on its own, its          *)
(*                       arguments and its result (the rule functions'     *)
(*                       specification, RulesSpec)                         *)
(***************************************************************************)
VARIABLES current, history, currentGameNumber, selectedCard,
          autoPlayTimers, animatingCards, userActions, patient, lastCall,
          inputValue, revertTimer, probe

sessionVars == <<current, history, currentGameNumber, selectedCard,
                 autoPlayTimers, animatingCards, userActions, patient, lastCall,
                 inputValue, revertTimer>>

vars == <<sessionVars, probe>>

\* No rule function has been called on its own yet; a run of the rule
\* functions is one call.
NoProbe == [fn |-> "none"]

GameNumbers == 1..MaxGameNumber

\* useEffect(() => { gameStateRef.current = gameState }, [gameState]): the
\* ref is brought up to date after every render, before the next timer or
\* input event runs.
gameStateRef == current

Call(op, fromType, toType, srcOk, dstOk, moved) ==
    [op |-> op, fromType |-> fromType, toType |-> toType,
     srcOk |-> srcOk, dstOk |-> dstOk, moved |-> moved]

PlainCall(op) == Call(op, "none", "none", FALSE, FALSE, FALSE)

\* Whether from.card is the top card / occupant of from.location.
SourceHolds(state, from) ==
    IF from.location.type = "tableau"
    THEN LastOf(state.tableau[from.location.index]).id = from.card.id
    ELSE IF from.location.type = "freecell"
    THEN state.freeCells[from.location.index].id = from.card.id
    ELSE LastOf(state.foundations[SuitAt(from.location.index)]).id = from.card.id

\* Whether the destination accepts the card by the rule of its kind.
DestAccepts(state, card, to) ==
    IF to.type = "tableau" THEN canMoveToTableau(card, state.tableau[to.index])
    ELSE IF to.type = "foundation"
    THEN canMoveToFoundation(card, state.foundations[SuitAt(to.index)])
    ELSE state.freeCells[to.index] = Null

TryMoveCall(state, from, to, moved) ==
    Call("tryMove", from.location.type, to.type,
         SourceHolds(state, from), DestAccepts(state, from.card, to), moved)

AddTimers(n) == Min2(autoPlayTimers + n, MaxTimers)

\* dispatch({type: 'UPDATE_STATE', newState}) n times in one event, each
\* through updateGameStateImmediate, which starts an auto-play timer unless
\* newState is won.
UpdateGameState(newState, n) ==
    LET one == ReduceUpdateState([current |-> current, history |-> history], newState)
        st == IF n = 1 THEN one ELSE ReduceUpdateState(one, newState)
    IN  /\ current' = st.current
        /\ history' = st.history
        /\ autoPlayTimers' = IF checkWin(newState) THEN autoPlayTimers
                             ELSE AddTimers(n)

\* The decimal digits, the value of a digit being its place less one.
Digits == <<"0", "1", "2", "3", "4", "5", "6", "7", "8", "9">>

IsDigit(ch) == \E k \in 1..Len(Digits) : Digits[k] = ch

DigitValue(ch) == (CHOOSE k \in 1..Len(Digits) : Digits[k] = ch) - 1

RECURSIVE NumberToString(_)
\* num.toString() of a non-negative integer, as a sequence of characters.
NumberToString(num) ==
    IF num < Len(Digits) THEN <<Digits[num + 1]>>
    ELSE Append(NumberToString(num \div Len(Digits)), Digits[(num % Len(Digits)) + 1])

RECURSIVE ParseDigits(_, _, _)
\* The number written by the digits of value from place k on, up to the
\* first character that is not a digit; acc is the number read so far.
ParseDigits(value, k, acc) ==
    IF k > Len(value) \/ ~IsDigit(value[k]) THEN acc
    ELSE ParseDigits(value, k + 1, acc * Len(Digits) + DigitValue(value[k]))

RECURSIVE SkipSpaces(_, _)
SkipSpaces(value, k) ==
    IF k <= Len(value) /\ value[k] = " " THEN SkipSpaces(value, k + 1) ELSE k

\* parseInt(value): leading spaces are skipped, a sign is read, then the
\* digits up to the first other character; NaN when no digit is there.
parseInt(value) ==
    LET start == SkipSpaces(value, 1)
        signed == start <= Len(value) /\ value[start] \in {"-", "+"}
        first == IF signed THEN start + 1 ELSE start
        magnitude == ParseDigits(value, first, 0)
    IN  IF first > Len(value) \/ ~IsDigit(value[first])
        THEN [nan |-> TRUE, number |-> 0]
        ELSE [nan |-> FALSE,
              number |-> IF signed /\ value[start] = "-" THEN 0 - magnitude
                         ELSE magnitude]

MIN_GAME_NUMBER == 1
MAX_GAME_NUMBER == 1000000

\* parseInt(value) || 1: NaN and 0 are falsy.
parseIntOrMin(value) ==
    LET parsed == parseInt(value)
    IN  IF parsed.nan \/ parsed.number = 0 THEN MIN_GAME_NUMBER ELSE parsed.number

clampNoMaximum(num) == IF num < MIN_GAME_NUMBER THEN MIN_GAME_NUMBER ELSE num

\* Math.max(1, Math.min(1000000, num)).
clamp(num) ==
    LET least == IF num < MAX_GAME_NUMBER THEN num ELSE MAX_GAME_NUMBER
    IN  IF least > MIN_GAME_NUMBER THEN least ELSE MIN_GAME_NUMBER

clampedNum(value) == clamp(parseIntOrMin(value))

Init ==
    /\ currentGameNumber \in GameNumbers
    /\ current = dealCards(currentGameNumber)
    /\ history = <<>>
    /\ selectedCard = <<>>
    /\ autoPlayTimers = 0
    /\ animatingCards = <<>>
    /\ userActions = 0
    /\ patient = TRUE
    /\ lastCall = PlainCall("init")
    /\ inputValue = NumberToString(currentGameNumber)
    /\ revertTimer = <<>>
    /\ probe = NoProbe

\* No auto-play timer is pending and no animation is in flight.
Idle == autoPlayTimers = 0 /\ animatingCards = <<>>

\* The runs explored: up to MaxRacingActions user inputs made at any moment,
\* or up to MaxUserActions inputs each made while auto-play is idle.
UserInput ==
    /\ \/ userActions < MaxRacingActions
       \/ patient /\ Idle /\ userActions < MaxUserActions
    /\ userActions' = userActions + 1
    /\ patient' = (patient /\ Idle)

\* handleCardClick(card, location): move the selected card there, or select.
\* `again` is TRUE where the click bubbles to a second handler that calls
\* tryMove with the same selectedCard and gameState (the column drop zone).
HandleCardClick(card, location, again) ==
    IF selectedCard # <<>>
    THEN LET from == selectedCard[1]
             r == tryMove(current, from, location)
         IN  /\ IF r.moved
                THEN UpdateGameState(r.newState, IF again THEN 2 ELSE 1)
                ELSE UNCHANGED <<current, history, autoPlayTimers>>
             /\ selectedCard' = <<>>
             /\ lastCall' = TryMoveCall(current, from, location, r.moved)
    ELSE /\ selectedCard' = <<[card |-> card, location |-> location]>>
         /\ lastCall' = PlainCall("select")
         /\ UNCHANGED <<current, history, autoPlayTimers>>

\* onClick of an empty cell or of the drop zone: tryMove(selectedCard, to);
\* the selection is kept.
ClickTarget(to) ==
    /\ selectedCard # <<>>
    /\ LET from == selectedCard[1]
           r == tryMove(current, from, to)
       IN  /\ IF r.moved
              THEN UpdateGameState(r.newState, 1)
              ELSE UNCHANGED <<current, history, autoPlayTimers>>
           /\ lastCall' = TryMoveCall(current, from, to, r.moved)
    /\ UNCHANGED selectedCard

\* A click on the top card of a tableau column: the card's onClick
\* (handleCardClick) and then, bubbling, the drop zone's onClick.
ClickTableauCard(col) ==
    /\ UserInput
    /\ Len(current.tableau[col]) > 0
    /\ HandleCardClick(LastOf(current.tableau[col]), Loc("tableau", col), TRUE)
    /\ UNCHANGED <<currentGameNumber, animatingCards, probe, inputValue, revertTimer>>

\* A click on the drop zone of a column beside its top card (the
\* placeholder of an empty column, a covered card).
ClickColumnZone(col) ==
    /\ UserInput
    /\ ClickTarget(Loc("tableau", col))
    /\ UNCHANGED <<currentGameNumber, animatingCards, probe, inputValue, revertTimer>>

ClickFreeCell(i) ==
    /\ UserInput
    /\ IF current.freeCells[i] # Null
       THEN HandleCardClick(current.freeCells[i], Loc("freecell", i), FALSE)
       ELSE ClickTarget(Loc("freecell", i))
    /\ UNCHANGED <<currentGameNumber, animatingCards, probe, inputValue, revertTimer>>

ClickFoundation(j) ==
    /\ UserInput
    /\ IF Len(current.foundations[SuitAt(j)]) > 0
       THEN HandleCardClick(LastOf(current.foundations[SuitAt(j)]),
                            Loc("foundation", j), FALSE)
       ELSE ClickTarget(Loc("foundation", j))
    /\ UNCHANGED <<currentGameNumber, animatingCards, probe, inputValue, revertTimer>>

LastEmptyFreeCell(state) ==
    IF \E i \in Cells : state.freeCells[i] = Null
    THEN CHOOSE i \in Cells : /\ state.freeCells[i] = Null
                              /\ \A k \in Cells : state.freeCells[k] = Null => k <= i
    ELSE -1

\* handleDoubleClick(card, location): to the card's own foundation if it
\* fits there, else from the tableau to the first empty free cell.
FirstEmptyFreeCell(state) ==
    IF \E i \in Cells : state.freeCells[i] = Null
    THEN FirstOf({i \in Cells : state.freeCells[i] = Null})
    ELSE -1

handleDoubleClick(gameState, card, location) ==
    LET li == location.index
        toFoundation ==
            /\ canMoveToFoundation(card, gameState.foundations[card.suit])
            /\ \/ /\ location.type = "tableau"
                  /\ LastOf(gameState.tableau[li]).id = card.id
               \/ /\ location.type = "freecell"
                  /\ gameState.freeCells[li].id = card.id
        emptyFreeCellIndex == FirstEmptyFreeCell(gameState)
    IN  IF toFoundation
        THEN [moved |-> TRUE,
              newState |->
                [RemoveFromSource(gameState, location.type, li) EXCEPT
                   !.foundations[card.suit] = Append(@, card)]]
        ELSE IF /\ location.type = "tableau"
                /\ LastOf(gameState.tableau[li]).id = card.id
                /\ emptyFreeCellIndex # -1
        THEN [moved |-> TRUE,
              newState |->
                [gameState EXCEPT !.tableau[li] = Pop(@),
                                  !.freeCells[emptyFreeCellIndex] = card]]
        ELSE [moved |-> FALSE, newState |-> gameState]

\* The card a double-click at a location is about: the top card of a
\* column, the card in a free cell, the top card of a foundation.
CardAt(state, location) ==
    IF location.type = "tableau" THEN LastOf(state.tableau[location.index])
    ELSE IF location.type = "freecell" THEN state.freeCells[location.index]
    ELSE LastOf(state.foundations[SuitAt(location.index)])

Locations ==
    {Loc("tableau", c) : c \in Columns} \cup {Loc("freecell", i) : i \in Cells}
        \cup {Loc("foundation", j) : j \in Slots}

DoubleClick(location) ==
    /\ UserInput
    /\ CardAt(current, location) # Null
    /\ LET card == CardAt(current, location)
           r == handleDoubleClick(current, card, location)
       IN  /\ IF r.moved
              THEN /\ UpdateGameState(r.newState, 1)
                   /\ selectedCard' = <<>>
              ELSE UNCHANGED <<current, history, autoPlayTimers, selectedCard>>
           /\ lastCall' = Call("doubleClick", location.type,
                               IF r.moved /\ r.newState.freeCells # current.freeCells
                               THEN "freecell"
                               ELSE IF r.moved THEN "foundation" ELSE "none",
                               TRUE, r.moved, r.moved)
    /\ UNCHANGED <<currentGameNumber, animatingCards, probe, inputValue, revertTimer>>

\* undo(): the button is disabled while the history is empty.
Undo ==
    /\ UserInput
    /\ Len(history) > 0
    /\ LET st == ReduceUndo([current |-> current, history |-> history])
       IN  /\ current' = st.current
           /\ history' = st.history
    /\ selectedCard' = <<>>
    /\ lastCall' = PlainCall("undo")
    /\ UNCHANGED <<currentGameNumber, autoPlayTimers, animatingCards, probe, inputValue, revertTimer>>

GameInProgressNever(pastStates, gameState) == FALSE

\* history.length > 0 && !checkWin(gameState): the condition under which
\* window.confirm is shown.
GameInProgress(pastStates, gameState) ==
    Len(pastStates) > 0 /\ ~checkWin(gameState)

\* The record of a handler that may show the confirmation: srcOk says that it
\* was shown, dstOk that it was shown and answered with OK.
ConfirmCall(op, asked, confirmed) ==
    Call(op, "none", "none", asked, asked /\ confirmed, FALSE)

\* newGame(num): asks for confirmation while a game is in progress.
NewGame(num, confirmed) ==
    /\ UserInput
    /\ IF GameInProgress(history, current) /\ ~confirmed
       THEN /\ lastCall' = ConfirmCall("newGameDeclined", TRUE, FALSE)
            /\ UNCHANGED <<current, history, currentGameNumber, selectedCard,
                           inputValue, revertTimer>>
       ELSE /\ LET st == ReduceNewGame([current |-> current, history |-> history],
                                       dealCards(num))
               IN  /\ current' = st.current
                   /\ history' = st.history
            /\ currentGameNumber' = num
            /\ inputValue' = NumberToString(num)
            /\ selectedCard' = <<>>
            /\ lastCall' = ConfirmCall("newGame", GameInProgress(history, current),
                                       confirmed)
            /\ revertTimer' = <<>>
    /\ UNCHANGED <<autoPlayTimers, animatingCards, probe>>

\* The setTimeout callback of autoPlayRecursive: one policy step on the
\* latest state; a move it finds is handed to animateMove, which computes
\* the new state with performMove and starts the animation (replacing one
\* in flight).  The card and its destination are on the page, so the
\* position lookups of animateMove succeed.
AutoPlayTimer ==
    /\ autoPlayTimers > 0
    /\ LET currentState == gameStateRef
           nextState == tryAutoPlaySingleCard(currentState)
           move == detectAutoPlayMove(currentState, nextState)
           done == performMove(currentState, move.fromPile, move.fromIndex,
                               move.toPile, move.toIndex)
       IN  IF nextState = currentState
           THEN /\ autoPlayTimers' = autoPlayTimers - 1
                /\ lastCall' = PlainCall("autoPlayIdle")
                /\ UNCHANGED <<current, history, animatingCards>>
           ELSE IF ~move.found
           THEN /\ LET st == ReduceUpdateState(
                                [current |-> current, history |-> history], nextState)
                   IN  /\ current' = st.current
                       /\ history' = st.history
                /\ autoPlayTimers' = autoPlayTimers
                /\ lastCall' = PlainCall("autoPlayDirect")
                /\ UNCHANGED animatingCards
           ELSE IF ~done.valid
           THEN /\ autoPlayTimers' = autoPlayTimers
                /\ lastCall' = PlainCall("autoPlayInvalid")
                /\ UNCHANGED <<current, history, animatingCards>>
           ELSE /\ autoPlayTimers' = autoPlayTimers - 1
                /\ animatingCards' = <<[newState |-> done.newState]>>
                /\ lastCall' = Call("autoPlayStart", move.fromPile, move.toPile,
                                    TRUE, TRUE, FALSE)
                /\ UNCHANGED <<current, history>>
    /\ UNCHANGED <<currentGameNumber, selectedCard, userActions, patient, probe, inputValue, revertTimer>>

\* onComplete of the animation: setAnimatingCards(null),
\* updateGameStateImmediate(newState), then the caller's continuation
\* (autoPlayRecursive again).
AnimationComplete ==
    /\ animatingCards # <<>>
    /\ LET newState == animatingCards[1].newState
           st == ReduceUpdateState([current |-> current, history |-> history], newState)
       IN  /\ current' = st.current
           /\ history' = st.history
           /\ autoPlayTimers' = IF checkWin(newState) THEN AddTimers(1)
                                ELSE AddTimers(2)
    /\ animatingCards' = <<>>
    /\ lastCall' = PlainCall("autoPlayAdopt")
    /\ UNCHANGED <<currentGameNumber, selectedCard, userActions, patient, probe, inputValue, revertTimer>>

Next ==
    \/ \E col \in Columns : ClickTableauCard(col)
    \/ \E col \in Columns : ClickColumnZone(col)
    \/ \E i \in Cells : ClickFreeCell(i)
    \/ \E j \in Slots : ClickFoundation(j)
    \/ \E location \in Locations : DoubleClick(location)
    \/ Undo
    \/ \E num \in GameNumbers, confirmed \in BOOLEAN : NewGame(num, confirmed)
    \/ AutoPlayTimer
    \/ AnimationComplete

Spec == Init /\ [][Next]_vars

(***************************************************************************)
(* The session with its game-number selector: the input can be typed into, *)
(* its button deals the typed number or a random one, and the revert timer *)
(* may fire at any moment after it was started.                            *)
(***************************************************************************)
\* Texts typed into the input: empty, not a number, zero, negative, a game
\* number, and a number above the largest game number.
TypedInputs ==
    {<<>>, <<"a", "b", "c">>, <<"0">>, <<"-", "5">>, <<"2">>,
     <<"1", "0", "0", "0", "0", "0", "1">>}

\* Values of Math.floor(Math.random() * 1000000): Math.random() is at least
\* 0 and less than 1.
RandomDraws == {0, 1, MAX_GAME_NUMBER - 1}

\* On mount: the game of a random number is dealt and the input shows it.
SelectorInit ==
    /\ currentGameNumber \in {draw + MIN_GAME_NUMBER : draw \in RandomDraws}
    /\ current = dealCards(currentGameNumber)
    /\ history = <<>>
    /\ selectedCard = <<>>
    /\ autoPlayTimers = 0
    /\ animatingCards = <<>>
    /\ userActions = 0
    /\ patient = TRUE
    /\ lastCall = PlainCall("init")
    /\ inputValue = NumberToString(currentGameNumber)
    /\ revertTimer = <<>>
    /\ probe = NoProbe

\* handleGameNumberChange(value): the input takes the text, a pending revert
\* is cleared, and a new one is started when the text stands for another
\* game; its callback keeps the game number of this render.
HandleGameNumberChange(value) ==
    /\ UserInput
    /\ inputValue' = value
    /\ revertTimer' = IF clampedNum(value) # currentGameNumber
                      THEN <<[currentGameNumber |-> currentGameNumber]>>
                      ELSE <<>>
    /\ lastCall' = PlainCall("gameNumberChange")
    /\ UNCHANGED <<current, history, currentGameNumber, selectedCard,
                   autoPlayTimers, animatingCards, probe>>

\* The callback of the revert timeout.
RevertTimer ==
    /\ revertTimer # <<>>
    /\ inputValue' = NumberToString(revertTimer[1].currentGameNumber)
    /\ revertTimer' = <<>>
    /\ lastCall' = PlainCall("revert")
    /\ UNCHANGED <<current, history, currentGameNumber, selectedCard,
                   autoPlayTimers, animatingCards, userActions, patient, probe>>

\* applyGameNumber(): asks for confirmation while a game is in progress,
\* then newGame(clampedNum, true).
ApplyGameNumber(confirmed) ==
    /\ UserInput
    /\ IF GameInProgress(history, current) /\ ~confirmed
       THEN /\ lastCall' = ConfirmCall("setDealDeclined", TRUE, FALSE)
            /\ UNCHANGED <<current, history, currentGameNumber, selectedCard,
                           inputValue, revertTimer>>
       ELSE /\ LET num == clampedNum(inputValue)
                   st == ReduceNewGame([current |-> current, history |-> history],
                                       dealCards(num))
               IN  /\ current' = st.current
                   /\ history' = st.history
                   /\ currentGameNumber' = num
                   /\ inputValue' = NumberToString(num)
            /\ selectedCard' = <<>>
            /\ lastCall' = ConfirmCall("setDeal", GameInProgress(history, current),
                                       confirmed)
            /\ revertTimer' = <<>>
    /\ UNCHANGED <<autoPlayTimers, animatingCards, probe>>

\* onClick of the button beside the input: a random game when the input
\* stands for the current game (newGame(randomNum)), the typed game
\* otherwise.
ClickGameButton(draw, confirmed) ==
    IF clampedNum(inputValue) = currentGameNumber
    THEN NewGame(draw + MIN_GAME_NUMBER, confirmed)
    ELSE ApplyGameNumber(confirmed)

SelectorNext ==
    \/ \E col \in Columns : ClickTableauCard(col)
    \/ \E col \in Columns : ClickColumnZone(col)
    \/ \E i \in Cells : ClickFreeCell(i)
    \/ \E j \in Slots : ClickFoundation(j)
    \/ \E location \in Locations : DoubleClick(location)
    \/ Undo
    \/ \E value \in TypedInputs : HandleGameNumberChange(value)
    \/ \E draw \in RandomDraws, confirmed \in BOOLEAN : ClickGameButton(draw, confirmed)
    \/ RevertTimer
    \/ AutoPlayTimer
    \/ AnimationComplete

SelectorSpec == SelectorInit /\ [][SelectorNext]_vars

(***************************************************************************)
(* The rule functions called on their own (utils/freecellRng.ts and        *)
(* game/freecellLogic.ts): each action calls one exported function on      *)
(* arguments drawn from a bounded set and records the call in probe.  The  *)
(* session stays as it was dealt.                                          *)
(***************************************************************************)
\* Deal numbers handed to the shuffle, as 16-bit halves: 0, 1, 2, 164,
\* 65,535, 65,536, 500,000, 1,000,000, 2^31 - 1, 2^31, 2^31 + 164 and
\* 2^32 - 1.
DealNumbers ==
    {[high |-> 0, low |-> 0], [high |-> 0, low |-> 1], [high |-> 0, low |-> 164],
     [high |-> 0, low |-> 2], [high |-> 0, low |-> 65535], [high |-> 1, low |-> 0],
     [high |-> 7, low |-> 41248],
     [high |-> 15, low |-> 16960], [high |-> 32767, low |-> 65535],
     [high |-> 32768, low |-> 0], [high |-> 32768, low |-> 164],
     [high |-> 65535, low |-> 65535]}

CallShuffle(dealNum) ==
    /\ probe = NoProbe
    /\ probe' = [fn |-> "shuffleFreeCellDeck", dealNum |-> dealNum,
                 result |-> shuffleFreeCellDeckHalves(createFullDeck,
                                                      dealNum.high, dealNum.low)]
    /\ UNCHANGED sessionVars

\* Game numbers handed to dealCards: the lowest, the game of the
\* repository's deal test, and the highest.
DealGameNumbers == {1, 164, 1000000}

\* dealCards(gameNumber) of the program, which deals the whole deck.
CallDealCards(gameNumber) ==
    /\ probe = NoProbe
    /\ probe' = [fn |-> "dealCards", gameNumber |-> gameNumber,
                 result |-> dealCardsFrom(createFullDeck, gameNumber)]
    /\ UNCHANGED sessionVars

\* The cards of the whole deck.
FullCards == {createFullDeck[k] : k \in 1..Len(createFullDeck)}

\* Target columns: the empty one, and those of one or two cards (under the
\* last card lies the king of spades or, under that king, the ace of
\* hearts).
TargetColumns ==
    {<<>>} \cup {<<c>> : c \in FullCards}
           \cup {<<IF c = MakeCard("spades", "king")
                    THEN MakeCard("hearts", "ace")
                    ELSE MakeCard("spades", "king"), c>> : c \in FullCards}

CallCanMoveToTableau(card, targetColumn) ==
    /\ probe = NoProbe
    /\ probe' = [fn |-> "canMoveToTableau", card |-> card,
                 targetColumn |-> targetColumn,
                 result |-> canMoveToTableau(card, targetColumn)]
    /\ UNCHANGED sessionVars

\* Foundation piles: ace, 2, ..., n of one suit, for every suit and every n.
FoundationRuns ==
    {[k \in 1..n |-> MakeCard(suit, AllRanks[k])] :
        suit \in {Suits[k] : k \in 1..Len(Suits)}, n \in 0..Len(AllRanks)}

CallCanMoveToFoundation(card, foundation) ==
    /\ probe = NoProbe
    /\ probe' = [fn |-> "canMoveToFoundation", card |-> card,
                 foundation |-> foundation,
                 result |-> canMoveToFoundation(card, foundation)]
    /\ UNCHANGED sessionVars

CallGetMaxMovableCards(emptyFreeCells, emptyColumns, excludeTargetColumn) ==
    /\ probe = NoProbe
    /\ probe' = [fn |-> "getMaxMovableCards",
                 emptyFreeCells |-> emptyFreeCells,
                 emptyColumns |-> emptyColumns,
                 excludeTargetColumn |-> excludeTargetColumn,
                 result |-> getMaxMovableCards(emptyFreeCells, emptyColumns,
                                               excludeTargetColumn)]
    /\ UNCHANGED sessionVars

\* Source columns: a run of six cards, a column whose run breaks on a colour,
\* one whose run breaks on a rank, an ascending column and a single card.
SourceColumns ==
    {<<MakeCard("spades", "king"), MakeCard("hearts", "queen"),
       MakeCard("clubs", "jack"), MakeCard("hearts", "10"),
       MakeCard("spades", "9"), MakeCard("diamonds", "8")>>,
     <<MakeCard("spades", "king"), MakeCard("hearts", "queen"),
       MakeCard("clubs", "jack"), MakeCard("clubs", "10"),
       MakeCard("hearts", "9"), MakeCard("spades", "8")>>,
     <<MakeCard("spades", "king"), MakeCard("hearts", "queen"),
       MakeCard("spades", "10"), MakeCard("hearts", "9"),
       MakeCard("clubs", "8"), MakeCard("hearts", "7")>>,
     <<MakeCard("spades", "5"), MakeCard("hearts", "6"),
       MakeCard("spades", "7")>>,
     <<MakeCard("hearts", "3")>>}

\* A state with the source column in column 0, emptyColumns empty columns
\* after it, one diamond in each other column, and clubs in the free cells
\* that are not empty.
SequenceState(sourceColumn, emptyFreeCells, emptyColumns) ==
    [tableau     |-> [c \in Columns |->
                        IF c = 0 THEN sourceColumn
                        ELSE IF c <= emptyColumns THEN <<>>
                        ELSE <<MakeCard("diamonds", AllRanks[c])>>],
     freeCells   |-> [i \in Cells |->
                        IF i < emptyFreeCells THEN Null
                        ELSE MakeCard("clubs", AllRanks[i + 1])],
     foundations |-> [hearts |-> <<>>, diamonds |-> <<>>,
                      clubs |-> <<>>, spades |-> <<>>]]

CallCanMoveCardSequence(sourceColumn, startIndex, emptyFreeCells, emptyColumns) ==
    /\ probe = NoProbe
    /\ LET gameState == SequenceState(sourceColumn, emptyFreeCells, emptyColumns)
       IN  probe' = [fn |-> "canMoveCardSequence",
                     sourceColumn |-> sourceColumn,
                     startIndex |-> startIndex,
                     gameState |-> gameState,
                     result |-> canMoveCardSequence(sourceColumn, startIndex,
                                                    gameState)]
    /\ UNCHANGED sessionVars

RulesNext ==
    \/ \E dealNum \in DealNumbers : CallShuffle(dealNum)
    \/ \E gameNumber \in DealGameNumbers : CallDealCards(gameNumber)
    \/ \E card \in FullCards, targetColumn \in TargetColumns :
          CallCanMoveToTableau(card, targetColumn)
    \/ \E card \in FullCards, foundation \in FoundationRuns :
          CallCanMoveToFoundation(card, foundation)
    \/ \E emptyFreeCells \in 0..FREE_CELL_COUNT,
          emptyColumns \in 0..TABLEAU_COLUMN_COUNT,
          excludeTargetColumn \in BOOLEAN :
          CallGetMaxMovableCards(emptyFreeCells, emptyColumns, excludeTargetColumn)
    \/ \E sourceColumn \in SourceColumns,
          emptyFreeCells \in 0..FREE_CELL_COUNT,
          emptyColumns \in 0..(TABLEAU_COLUMN_COUNT - 1) :
          \E startIndex \in 0..(Len(sourceColumn) - 1) :
             CallCanMoveCardSequence(sourceColumn, startIndex,
                                     emptyFreeCells, emptyColumns)

RulesSpec == Init /\ [][RulesNext]_vars

(***************************************************************************)
(* Properties.                                                             *)
(***************************************************************************)
\* f[0] \o f[1] \o ... \o f[n]
RECURSIVE Flatten(_, _)
Flatten(f, n) == IF n < 0 THEN <<>> ELSE Flatten(f, n - 1) \o f[n]

\* Everything that lies on the board of a state, place by place.
Placed(state) ==
    Flatten(state.tableau, TABLEAU_COLUMN_COUNT - 1)
      \o Flatten([i \in Cells |-> IF state.freeCells[i] = Null THEN <<>>
                                  ELSE <<state.freeCells[i]>>], FREE_CELL_COUNT - 1)
      \o Flatten([j \in Slots |-> state.foundations[SuitAt(j)]], FOUNDATION_COUNT - 1)

\* As many things as the deck has cards, and every card among them.
CardsConserved(state) ==
    LET placed == Placed(state)
    IN  /\ Len(placed) = Cardinality(AllCards)
        /\ {placed[k] : k \in 1..Len(placed)} = AllCards

\* C1: in every reachable state each card of the deck occurs exactly once
\* across the tableau columns, the free cells and the foundation piles, and
\* nothing else lies there: no card is duplicated, none is lost.
C1_CardConservation == CardsConserved(current)

\* A card waits in a free cell while an automatic move has just been adopted
\* on top of an earlier move.
C1_Witness ==
    /\ lastCall.op = "autoPlayAdopt"
    /\ \E i \in Cells : current.freeCells[i] # Null
    /\ Len(history) >= 2

\* ace, 2, ..., N of one suit, bottom to top.
AscendingRun(pile) ==
    /\ Len(pile) <= NumRanks
    /\ \A k \in 1..Len(pile) :
          /\ pile[k].rank = Ranks[k]
          /\ pile[k].suit = pile[1].suit

\* C2: in every reachable state each foundation pile is empty or holds ace,
\* 2, ..., N of one single suit in ascending order without gaps.
C2_FoundationsAscending ==
    \A j \in Slots : AscendingRun(current.foundations[SuitAt(j)])

\* A card has just been taken back from a foundation by a manual move while
\* a foundation holds more than one card.
C2_Witness ==
    /\ lastCall.op = "tryMove"
    /\ lastCall.fromType = "foundation"
    /\ lastCall.moved
    /\ \E j \in Slots : Len(current.foundations[SuitAt(j)]) >= 2

\* C3: tryMove applied to the card that really is the top card or occupant
\* of its source succeeds exactly when the destination accepts that card,
\* whatever the kinds of source and destination.
C3_TryMoveIffAccepted ==
    (lastCall.op = "tryMove" /\ lastCall.srcOk)
        => (lastCall.moved <=> lastCall.dstOk)

\* C4: a tryMove request that is not acceptable (the destination refuses the
\* card, or the source no longer holds it) leaves the current state and the
\* history exactly as they were.
C4_RejectedMoveChangesNothing ==
    [][(lastCall'.op = "tryMove" /\ ~(lastCall'.srcOk /\ lastCall'.dstOk))
          => (current' = current /\ history' = history)]_vars

\* A destination has just refused a card that lies on top of its source,
\* after the board had already changed.
C4_Witness ==
    /\ lastCall.op = "tryMove"
    /\ lastCall.srcOk
    /\ ~lastCall.dstOk
    /\ ~lastCall.moved
    /\ Len(history) >= 1

\* The top card or occupant of a location, Null where there is none.
TopAt(state, loc) ==
    IF loc.type = "tableau"
    THEN IF Len(state.tableau[loc.index]) = 0 THEN Null
         ELSE state.tableau[loc.index][Len(state.tableau[loc.index])]
    ELSE IF loc.type = "freecell" THEN state.freeCells[loc.index]
    ELSE IF Len(state.foundations[SuitAt(loc.index)]) = 0 THEN Null
         ELSE state.foundations[SuitAt(loc.index)][Len(state.foundations[SuitAt(loc.index)])]

\* The state without the top card or occupant of a location.
Taken(state, loc) ==
    IF loc.type = "tableau"
    THEN [state EXCEPT !.tableau[loc.index] = SubSeq(@, 1, Len(@) - 1)]
    ELSE IF loc.type = "freecell"
    THEN [state EXCEPT !.freeCells[loc.index] = Null]
    ELSE [state EXCEPT !.foundations[SuitAt(loc.index)] = SubSeq(@, 1, Len(@) - 1)]

\* The state with a card put on top of (or into) a location.
Put(state, loc, card) ==
    IF loc.type = "tableau"
    THEN [state EXCEPT !.tableau[loc.index] = @ \o <<card>>]
    ELSE IF loc.type = "freecell"
    THEN [state EXCEPT !.freeCells[loc.index] = card]
    ELSE [state EXCEPT !.foundations[SuitAt(loc.index)] = @ \o <<card>>]

\* newState is state with the top card of src moved onto dst, and nothing
\* else changed.
OneCardMoved(state, newState, src, dst) ==
    /\ TopAt(state, src) # Null
    /\ src # dst
    /\ (dst.type = "freecell" => state.freeCells[dst.index] = Null)
    /\ newState = Put(Taken(state, src), dst, TopAt(state, src))

\* C5: a successful tryMove changes the state only by taking the moved card
\* from the top of its source and putting it on top of (or into) the
\* destination; every other pile and cell, the order of the other cards and
\* gameNumber stay as they were.
C5_SuccessfulMoveFrame ==
    [][(lastCall'.op = "tryMove" /\ lastCall'.moved)
          => \E src \in Locations, dst \in Locations :
                /\ src.type = lastCall'.fromType
                /\ dst.type = lastCall'.toType
                /\ OneCardMoved(current, current', src, dst)]_vars

\* A manual move from a free cell has just succeeded.
C5_Witness ==
    /\ lastCall.op = "tryMove"
    /\ lastCall.moved
    /\ lastCall.fromType = "freecell"

\* C6: a request whose card is no longer the top card or occupant of the
\* location it was selected from is rejected and changes nothing, even when
\* the destination would accept the card.
C6_StaleReferenceRejected ==
    [][(lastCall'.op = "tryMove" /\ ~lastCall'.srcOk)
          => (~lastCall'.moved /\ current' = current /\ history' = history)]_vars

\* A request for a card that has left its source has just been refused by a
\* destination that would accept the card.
C6_Witness ==
    /\ lastCall.op = "tryMove"
    /\ ~lastCall.srcOk
    /\ lastCall.dstOk
    /\ ~lastCall.moved

\* The cards that lie on the foundations of a state.
OnFoundations(state) ==
    {state.foundations[SuitAt(j)][k] :
        <<j, k>> \in {<<j, k>> \in Slots \X (1..NumRanks) :
                         k <= Len(state.foundations[SuitAt(j)])}}

\* The cards the auto-play policy promotes in a state (one or none).
Promoted(state) ==
    OnFoundations(tryAutoPlaySingleCard(state)) \ OnFoundations(state)

\* The smaller of the lengths of the two foundation piles of the other colour.
MinOppositeRank(state, suit) ==
    LET lengths == {Len(state.foundations[SuitAt(j)]) :
                       j \in {j \in Slots :
                                 getCardColor(SuitAt(j)) # getCardColor(suit)}}
    IN  CHOOSE n \in lengths : \A m \in lengths : n <= m

\* C7: in any state the auto-play policy never promotes a card whose rank
\* exceeds minOppositeRank + 2, minOppositeRank being the smaller of the
\* lengths of the two foundation piles of the opposite colour.
C7_AutoPlayRankBound ==
    \A card \in Promoted(current) :
        getRankValue(card.rank) <= MinOppositeRank(current, card.suit) + 2

\* A card that its own foundation pile would take is held back by the rank
\* bound while the policy promotes another card.
C7_Witness ==
    /\ Promoted(current) # {}
    /\ \E loc \in Locations :
          /\ loc.type # "foundation"
          /\ TopAt(current, loc) # Null
          /\ canMoveToFoundation(TopAt(current, loc),
                                 current.foundations[TopAt(current, loc).suit])
          /\ getRankValue(TopAt(current, loc).rank)
                > MinOppositeRank(current, TopAt(current, loc).suit) + 2

\* C8: whenever the auto-play policy promotes a card of rank r, every card
\* of the opposite colour of rank r - 2 or lower already lies on a
\* foundation.
C8_OppositeColourNotBehind ==
    \A card \in Promoted(current) :
        \A other \in AllCards :
            (/\ getCardColor(other.suit) # getCardColor(card.suit)
             /\ getRankValue(other.rank) <= getRankValue(card.rank) - 2)
                => other \in OnFoundations(current)

\* Free cells 0..3, then tableau columns 0..7.
ScanOrder ==
    [k \in 1..(FREE_CELL_COUNT + TABLEAU_COLUMN_COUNT) |->
        IF k <= FREE_CELL_COUNT THEN Loc("freecell", k - 1)
        ELSE Loc("tableau", k - FREE_CELL_COUNT - 1)]

\* canMoveToFoundation accepts the card on its own suit's pile, and the card
\* is safe.
Eligible(state, card) ==
    /\ card # Null
    /\ canMoveToFoundation(card, state.foundations[card.suit])
    /\ getRankValue(card.rank) = Len(state.foundations[card.suit]) + 1
    /\ getRankValue(card.rank) <= MinOppositeRank(state, card.suit) + 2

EligiblePlaces(state) ==
    {k \in DOMAIN ScanOrder : Eligible(state, TopAt(state, ScanOrder[k]))}

\* The state after the first eligible card in scan order went to its own
\* suit's pile; the state itself when there is none.
FirstEligibleMoved(state) ==
    IF EligiblePlaces(state) = {} THEN state
    ELSE LET k == CHOOSE k \in EligiblePlaces(state) :
                      \A m \in EligiblePlaces(state) : k <= m
             card == TopAt(state, ScanOrder[k])
         IN  [Taken(state, ScanOrder[k]) EXCEPT
                !.foundations[card.suit] = @ \o <<card>>]

\* C9: tryAutoPlaySingleCard moves exactly the first card, scanning free
\* cells 0..3 and then the top cards of columns 0..7, that is accepted on
\* its own suit's pile and is safe; with no such card it returns the state
\* it was given.
C9_FirstEligibleCardMoves ==
    tryAutoPlaySingleCard(current) = FirstEligibleMoved(current)

\* A free cell and a tableau column both offer an eligible card.
C9_Witness ==
    /\ \E k \in EligiblePlaces(current) : ScanOrder[k].type = "freecell"
    /\ \E k \in EligiblePlaces(current) : ScanOrder[k].type = "tableau"

\* C10: every state adopted as the result of an automatic move differs from
\* the state that is current at the moment of adoption by exactly one safe
\* foundation move, also when a manual move, an undo or a new game happened
\* between the timer firing and the end of the animation.
C10_AutoMoveAgainstLatestState ==
    [][(lastCall'.op = "autoPlayAdopt")
          => \E k \in EligiblePlaces(current) :
                current' = [Taken(current, ScanOrder[k]) EXCEPT
                              !.foundations[TopAt(current, ScanOrder[k]).suit] =
                                  @ \o <<TopAt(current, ScanOrder[k])>>]]_vars

\* The last step changed the state: the initial deal, an accepted manual
\* move, an undo or a new game.
StateChanged ==
    \/ lastCall.op \in {"init", "undo", "newGame"}
    \/ lastCall.op \in {"tryMove", "doubleClick"} /\ lastCall.moved

\* The auto-play policy finds a card to promote.
AutoMoveAvailable(state) == tryAutoPlaySingleCard(state) # state

\* C11: after any state change (initial deal, accepted manual move, undo,
\* new game), if the current state is not won and holds a card the policy
\* would promote, an automatic move is on its way (a timer is pending or an
\* animation is in flight), so that one is eventually applied when timers
\* fire and no further input arrives.  With none on its way and no input,
\* no step is enabled and the card stays where it is for ever.
C11_AutoPlayFollowsStateChange ==
    (StateChanged /\ ~checkWin(current) /\ AutoMoveAvailable(current))
        => ~Idle

\* The reducer's state of the session.
Session == [current |-> current, history |-> history]

\* States a dispatch may hand to the reducer from this one: the result of a
\* double-click at each location, the policy's step, a fresh deal.
NextStates(state) ==
    {handleDoubleClick(state, CardAt(state, l), l).newState :
        l \in {m \in Locations : CardAt(state, m) # Null}}
    \cup {tryAutoPlaySingleCard(state)}
    \cup {dealCards(n) : n \in GameNumbers}

\* C12: for every session state (current = s, history = h) and every new
\* state s2, UPDATE_STATE with s2 followed immediately by UNDO restores
\* current = s and history = h.
C12_UndoRestoresSession ==
    \A s2 \in NextStates(current) :
        ReduceUndo(ReduceUpdateState(Session, s2)) = Session

\* A session with moves behind it and a new state that differs from the
\* current one.
C12_Witness ==
    /\ Len(history) > 0
    /\ \E s2 \in NextStates(current) :
          /\ s2 # current
          /\ ReduceUpdateState(Session, s2).history # history

\* C13: UNDO with an empty history leaves the current state and the history
\* unchanged; with a non-empty history it adopts the most recently pushed
\* state as current and removes only that entry, and the state it replaced
\* is kept nowhere: the result has no other field and is the same whatever
\* the replaced state was.
C13_UndoPopsLastEntry ==
    LET undone == ReduceUndo(Session)
    IN  /\ history = <<>> => undone = Session
        /\ history # <<>> =>
              /\ Append(undone.history, undone.current) = history
              /\ DOMAIN undone = {"current", "history"}
              /\ \A replaced \in NextStates(current) :
                    ReduceUndo([current |-> replaced, history |-> history]) = undone

\* An undo was made and left entries in the history.
C13_Witness ==
    /\ lastCall.op = "undo"
    /\ Len(history) > 0
    /\ current # history[Len(history)]

\* C14: newGame(n) makes dealCards(n) the current state and empties the
\* history, whatever the previous current state and history were.
C14_NewGameResetsSession ==
    [][lastCall'.op = "newGame"
          => /\ current' = dealCards(currentGameNumber')
             /\ history' = <<>>]_vars

\* A new game was dealt while an automatic move was being animated, that
\* is, after a move had been accepted and recorded.
C14_Witness ==
    /\ lastCall.op = "newGame"
    /\ animatingCards # <<>>

\* The last step accepted a move: a manual move, a double-click or an
\* automatic move.
MoveAccepted(call) ==
    \/ call.op \in {"tryMove", "doubleClick"} /\ call.moved
    \/ call.op \in {"autoPlayAdopt", "autoPlayDirect"}

\* C15: every accepted move, manual, double-click or automatic, appends
\* exactly one entry to the history, namely the state that was current just
\* before the move (so that the history length, the displayed move count,
\* is the number of accepted moves less the number of effective undos since
\* the last new game).
C15_OneHistoryEntryPerMove ==
    [][MoveAccepted(lastCall') => history' = Append(history, current)]_vars

\* The lengths of the four foundation piles.
FoundationCounts(state) ==
    [j \in Slots |-> Len(state.foundations[SuitAt(j)])]

\* A step in which tryMove ran on a won state.
TryMoveOnWonState == checkWin(current) /\ lastCall'.op = "tryMove"

\* C17: once a state satisfies checkWin, no subsequent tryMove changes the
\* length of any foundation pile, so checkWin stays true.
C17_WonStateIsTerminal ==
    [][TryMoveOnWonState
          => /\ FoundationCounts(current') = FoundationCounts(current)
             /\ checkWin(current')]_vars

\* C17 amended: once a state satisfies checkWin, no tryMove makes a
\* foundation pile longer, and none changes the state unless its source is
\* a foundation pile; a tryMove from a foundation pile that is accepted
\* takes one card off that pile, and checkWin is false afterwards.
C17_WonStateOnlyGivesBack ==
    [][TryMoveOnWonState
          => /\ \A j \in Slots :
                   FoundationCounts(current')[j] <= FoundationCounts(current)[j]
             /\ lastCall'.fromType # "foundation" => current' = current
             /\ lastCall'.moved
                   => /\ lastCall'.fromType = "foundation"
                      /\ ~checkWin(current')
                      /\ \E j \in Slots :
                            FoundationCounts(current) =
                                [FoundationCounts(current') EXCEPT ![j] = @ + 1]
             /\ ~lastCall'.moved => current' = current]_vars

\* tryMove took a card off a foundation pile of a won state.
C17_Witness ==
    /\ lastCall.op = "tryMove"
    /\ lastCall.fromType = "foundation"
    /\ lastCall.moved
    /\ ~checkWin(current)
    /\ history # <<>>
    /\ checkWin(history[Len(history)])

\* All four foundation piles hold every rank of their suit.
AllFoundationsFull(state) ==
    \A j \in Slots : Len(state.foundations[SuitAt(j)]) = Len(Ranks)

\* C18: in every reachable GameState the isWon field is true exactly when
\* all four foundations hold all the cards of their suit.
C18_IsWonFieldTracksWin ==
    current.isWon <=> AllFoundationsFull(current)

\* C19: checkWin(state) is true if and only if each of the four foundation
\* piles holds a whole suit; it is false in every state where fewer cards
\* than the whole deck are on the foundations.
C19_CheckWinIffFoundationsFull ==
    /\ checkWin(current) <=> AllFoundationsFull(current)
    /\ Cardinality(OnFoundations(current)) < Cardinality(AllCards)
          => ~checkWin(current)

\* The last automatic move completed the foundations.
C19_Witness ==
    /\ checkWin(current)
    /\ lastCall.op = "autoPlayAdopt"
    /\ Cardinality(OnFoundations(current)) = Cardinality(AllCards)

\* A deal of a shuffled deck: shuffled card number 8 * r + c lies at row r
\* of column c, every card of the deck is dealt, the free cells and the
\* foundations are empty and isWon is false.
DealtRowMajor(state, shuffledDeck) ==
    /\ \A c \in Columns :
          \A r \in 0..(Len(state.tableau[c]) - 1) :
              state.tableau[c][r + 1] = shuffledDeck[TABLEAU_COLUMN_COUNT * r + c + 1]
    /\ Len(Flatten(state.tableau, TABLEAU_COLUMN_COUNT - 1)) = Len(shuffledDeck)
    /\ \A i \in Cells : state.freeCells[i] = Null
    /\ \A j \in Slots : state.foundations[SuitAt(j)] = <<>>
    /\ ~state.isWon

\* C20: for every game number n, dealCards(n) places shuffled card number
\* 8 * r + c at row r of tableau column c (row 6 only for columns 0..3), so
\* that columns 0..3 hold 7 cards and columns 4..7 hold 6 (52 in all), with
\* all four free cells empty, all four foundations empty and isWon false.
\* Checked of the deal the session holds (the deck of NumRanks ranks) and of
\* the deal of the whole deck for the same game number.
C20_DealIsRowMajor ==
    lastCall.op \in {"init", "newGame"}
        => /\ DealtRowMajor(current,
                            shuffleFreeCellDeck(createDeck, currentGameNumber))
           /\ LET dealt == dealCardsFrom(createFullDeck, currentGameNumber)
              IN  /\ DealtRowMajor(dealt, shuffleFreeCellDeck(createFullDeck,
                                                              currentGameNumber))
                  /\ \A c \in Columns :
                        Len(dealt.tableau[c]) =
                            IF c < ShortRowColumns THEN DealRows ELSE DealRows - 1
                  /\ dealt.gameNumber = currentGameNumber

\* A new game of the last game number was dealt as a later input of a run.
C20_Witness ==
    /\ lastCall.op = "newGame"
    /\ currentGameNumber = MaxGameNumber
    /\ userActions >= MaxRacingActions
    /\ current = dealCards(MaxGameNumber)

\* A 32-bit number given as 16-bit halves, as its four bytes, lowest first.
BytesOf(n) == <<n.low % 256, n.low \div 256, n.high % 256, n.high \div 256>>

\* (seed * 214013 + 2531011) mod 2^32 on the bytes of seed:
\* 214013 = 0x0343FD and 2531011 = 0x269EC3.
SpecifiedNextSeed(b) ==
    LET t1 == b[1] * 253 + 195
        t2 == b[1] * 67 + b[2] * 253 + 158 + (t1 \div 256)
        t3 == b[1] * 3 + b[2] * 67 + b[3] * 253 + 38 + (t2 \div 256)
        t4 == b[2] * 3 + b[3] * 67 + b[4] * 253 + (t3 \div 256)
    IN  <<t1 % 256, t2 % 256, t3 % 256, t4 % 256>>

\* The specified loop: for i = 0..len-1, the next seed, rand = (seed >> 16)
\* & 0x7FFF, position = (rand + highBit) mod cardsLeft, swap deck[position]
\* with deck[cardsLeft - 1].  highBit is 0 in the algorithm as specified.
RECURSIVE SpecifiedLoop(_, _, _, _)
SpecifiedLoop(deck, seed, i, highBit) ==
    IF i >= Len(deck) THEN deck
    ELSE LET cardsLeft == Len(deck) - i
             next == SpecifiedNextSeed(seed)
             rand == (next[3] + 256 * next[4]) % 32768
             position == (rand + highBit) % cardsLeft
         IN  SpecifiedLoop(Swap(deck, position + 1, cardsLeft), next, i + 1, highBit)

SpecifiedShuffle(deck, dealNum, highBit) ==
    Reverse(SpecifiedLoop(deck, BytesOf(dealNum), 0, highBit))

\* C21: for every gameNumber that is a non-negative 32-bit integer,
\* shuffleFreeCellDeck(deck, gameNumber) is the result of the specified
\* algorithm (position = rand mod cardsLeft), then reversed.
C21_ShuffleIsSpecifiedAlgorithm ==
    probe.fn = "shuffleFreeCellDeck"
        => probe.result = SpecifiedShuffle(createFullDeck, probe.dealNum, 0)

\* C21 amended: for every gameNumber below 2^31 the result is that of the
\* specified algorithm; for every gameNumber from 2^31 to 2^32 - 1 it is
\* that of the same algorithm with position = (rand | 0x8000) mod cardsLeft.
C21_ShuffleWithLargeDealNumbers ==
    probe.fn = "shuffleFreeCellDeck"
        => probe.result =
              SpecifiedShuffle(createFullDeck, probe.dealNum,
                               IF probe.dealNum.high < 32768 THEN 0 ELSE 32768)

\* The shuffle was called with a deal number of 2^31 or more, and its result
\* is not that of the algorithm as specified.
C21_Witness ==
    /\ probe.fn = "shuffleFreeCellDeck"
    /\ probe.dealNum.high >= 32768
    /\ probe.result # SpecifiedShuffle(createFullDeck, probe.dealNum, 0)

\* The last n cards of a pile.
LastCards(pile, n) == SubSeq(pile, Len(pile) - n + 1, Len(pile))

\* C22: dealCards(164) produces the reference layout of game #164: tableau
\* column 1 (index 0) is 4D 2H 9S 6C 10S 8S 3H in deal order and column 8
\* (index 7) ends with 2D JH.
C22_Game164ReferenceLayout ==
    (probe.fn = "dealCards" /\ probe.gameNumber = 164)
        => /\ probe.result.tableau[0] =
                 <<MakeCard("diamonds", "4"), MakeCard("hearts", "2"),
                   MakeCard("spades", "9"), MakeCard("clubs", "6"),
                   MakeCard("spades", "10"), MakeCard("spades", "8"),
                   MakeCard("hearts", "3")>>
           /\ LastCards(probe.result.tableau[7], 2) =
                 <<MakeCard("diamonds", "2"), MakeCard("hearts", "jack")>>

\* The place of a rank in ace, 2, ..., king.
RankNumber(rank) == CHOOSE k \in 1..Len(AllRanks) : AllRanks[k] = rank

RedSuits == {"hearts", "diamonds"}

BlackSuits == {"clubs", "spades"}

OppositeColours(a, b) ==
    \/ a.suit \in RedSuits /\ b.suit \in BlackSuits
    \/ a.suit \in BlackSuits /\ b.suit \in RedSuits

\* C24: for every card and every target column, canMoveToTableau(card,
\* column) is true if and only if the column is empty, or the column's last
\* card has rank value exactly one higher than the card and the opposite
\* colour (red = hearts/diamonds, black = clubs/spades).
C24_CanMoveToTableauRule ==
    probe.fn = "canMoveToTableau"
        => LET column == probe.targetColumn
               last == column[Len(column)]
           IN  probe.result <=>
                  \/ column = <<>>
                  \/ /\ column # <<>>
                     /\ RankNumber(last.rank) = RankNumber(probe.card.rank) + 1
                     /\ OppositeColours(last, probe.card)

\* A card was accepted on a column of two cards.
C24_Witness ==
    /\ probe.fn = "canMoveToTableau"
    /\ Len(probe.targetColumn) = 2
    /\ probe.result

\* ace, 2, ..., n of one suit, bottom to top, on the whole deck.
AceUpRun(pile) ==
    /\ Len(pile) <= Len(AllRanks)
    /\ \A k \in 1..Len(pile) :
          /\ pile[k].rank = AllRanks[k]
          /\ pile[k].suit = pile[1].suit

\* C25: for every card and every foundation pile that is an ace-up
\* single-suit run, canMoveToFoundation(card, pile) is true if and only if
\* the pile is empty and the card is an ace, or the pile's top card has the
\* card's suit and a rank value exactly one lower; so it accepts a card
\* exactly when the pile with the card added is an ace-up single-suit run.
C25_CanMoveToFoundationRule ==
    (probe.fn = "canMoveToFoundation" /\ AceUpRun(probe.foundation))
        => LET pile == probe.foundation
               top == pile[Len(pile)]
           IN  /\ probe.result <=>
                     \/ pile = <<>> /\ RankNumber(probe.card.rank) = 1
                     \/ /\ pile # <<>>
                        /\ top.suit = probe.card.suit
                        /\ RankNumber(top.rank) = RankNumber(probe.card.rank) - 1
               /\ probe.result <=> AceUpRun(Append(pile, probe.card))

\* A card was accepted on a pile that holds cards already.
C25_Witness ==
    /\ probe.fn = "canMoveToFoundation"
    /\ Len(probe.foundation) > 1
    /\ probe.result

RECURSIVE Doubled(_, _)
\* n doubled the given number of times.
Doubled(n, times) == IF times = 0 THEN n ELSE Doubled(n + n, times - 1)

\* (1 + emptyFreeCells) * 2^(emptyColumns - d).
SpecifiedMaxMovable(emptyFreeCells, emptyColumns, d) ==
    Doubled(1 + emptyFreeCells, emptyColumns - d)

\* C26: for all emptyFreeCells in 0..4, emptyColumns in 0..8 and both values
\* of excludeTargetColumn, getMaxMovableCards returns
\* (1 + emptyFreeCells) * 2^(emptyColumns - d), where d = 1 if
\* excludeTargetColumn is true and emptyColumns > 0 and d = 0 otherwise, and
\* the result is at least 1.
C26_MaxMovableCardsFormula ==
    probe.fn = "getMaxMovableCards"
        => LET d == IF probe.excludeTargetColumn /\ probe.emptyColumns > 0
                    THEN 1 ELSE 0
           IN  /\ probe.result = SpecifiedMaxMovable(probe.emptyFreeCells,
                                                     probe.emptyColumns, d)
               /\ probe.result >= 1

\* The target column was excluded from several empty columns.
C26_Witness ==
    /\ probe.fn = "getMaxMovableCards"
    /\ probe.excludeTargetColumn
    /\ probe.emptyColumns > 1
    /\ probe.emptyFreeCells > 0
    /\ probe.result > 1

\* The cards from the 0-based startIndex to the end of the column descend by
\* one rank with alternating colours.
DescendingAlternatingRun(column, startIndex) ==
    \A k \in (startIndex + 1)..(Len(column) - 1) :
        /\ RankNumber(column[k].rank) = RankNumber(column[k + 1].rank) + 1
        /\ OppositeColours(column[k], column[k + 1])

\* The empty free cells and the empty columns of a state, the destination
\* column not counted among the empty columns.
CapacityTowards(state, destination) ==
    LET emptyFreeCells == Cardinality({i \in Cells : state.freeCells[i] = Null})
        emptyColumns == Cardinality({c \in Columns \ {destination} :
                                        state.tableau[c] = <<>>})
    IN  SpecifiedMaxMovable(emptyFreeCells, emptyColumns, 0)

\* C27: canMoveCardSequence(sourceColumn, startIndex, state) is true if and
\* only if the cards from startIndex to the end of the column form a
\* descending alternating-colour run and their number does not exceed the
\* maximum computed from the state's empty free cells and its empty columns,
\* the destination column not counted: whichever other column is the
\* destination, an empty column is subtracted only when it is the
\* destination.
C27_SequenceMovableIffRunWithinCapacity ==
    probe.fn = "canMoveCardSequence"
        => \A destination \in Columns \ {0} :
              probe.result <=>
                 /\ DescendingAlternatingRun(probe.sourceColumn, probe.startIndex)
                 /\ Len(probe.sourceColumn) - probe.startIndex
                       <= CapacityTowards(probe.gameState, destination)

\* C28: in every reachable session state the game number of the current
\* game is an integer in 1..1,000,000, whatever was typed into the input
\* (nothing, no number, zero, a negative or too large a number) and
\* whatever number was drawn at random; the state on the table is that
\* game's deal or came from it by play.
C28_GameNumberInRange ==
    /\ currentGameNumber \in MIN_GAME_NUMBER..MAX_GAME_NUMBER
    /\ lastCall.op \in {"init", "newGame", "setDeal"}
          => current = dealCards(currentGameNumber)

\* A deal was set from the input, which stood above the largest game number
\* (no other text typed stands for that game).
C28_Witness ==
    /\ lastCall.op = "setDeal"
    /\ currentGameNumber = MAX_GAME_NUMBER

\* C30: while the input shows another text than the current game number and
\* the deal was not applied, the revert is pending (so the input goes back
\* to the current game number when the 20 seconds are over), and a pending
\* revert holds the current game number: applying the deal or starting a
\* new game cancels it, so it never sets the input to a game number that is
\* no longer the current one.
C30_RevertPendingForCurrentGame ==
    /\ inputValue # NumberToString(currentGameNumber) => revertTimer # <<>>
    /\ revertTimer # <<>> => revertTimer[1].currentGameNumber = currentGameNumber

\* The last n cards of a column come to lie on the destination column, in
\* their order, by one tryMove call that names a card of the source column.
MovesAsUnit(state, src, dest, n) ==
    LET column == state.tableau[src]
        kept == SubSeq(column, 1, Len(column) - n)
        run == SubSeq(column, Len(column) - n + 1, Len(column))
    IN  \E k \in 1..Len(column) :
           LET r == tryMove(state, [card |-> column[k],
                                    location |-> Loc("tableau", src)],
                            Loc("tableau", dest))
           IN  /\ r.moved
               /\ r.newState.tableau[src] = kept
               /\ r.newState.tableau[dest] = state.tableau[dest] \o run

\* The destination column is empty, or its last card is one rank above the
\* card and of the other colour.
ColumnTakes(column, card) ==
    \/ column = <<>>
    \/ /\ column # <<>>
       /\ RankNumber(column[Len(column)].rank) = RankNumber(card.rank) + 1
       /\ OppositeColours(column[Len(column)], card)

\* A run of n cards at the end of column src that the column dest takes and
\* the empty free cells and columns allow to move.
MovableRun(state, src, dest, n) ==
    LET column == state.tableau[src]
    IN  /\ n <= Len(column)
        /\ DescendingAlternatingRun(column, Len(column) - n)
        /\ n <= CapacityTowards(state, dest)
        /\ ColumnTakes(state.tableau[dest], column[Len(column) - n + 1])

\* C29: a run of several cards at the end of a tableau column can be moved
\* as a unit, in one move, onto another tableau column or an empty column
\* whenever the run is descending with alternating colours and its length
\* is within the capacity given by the empty free cells and empty columns.
C29_RunMovesAsUnit ==
    \A src \in Columns :
        \A dest \in Columns \ {src}, n \in 2..Len(current.tableau[src]) :
            MovableRun(current, src, dest, n) => MovesAsUnit(current, src, dest, n)

\* C31: in every reachable state the foundation pile stored under a suit
\* holds only cards of that suit, so its length is the rank of the highest
\* card of the suit promoted so far; a manual move of an ace onto the slot
\* of another suit is rejected.
C31_FoundationPileHoldsItsSuit ==
    \A j \in Slots :
        LET pile == current.foundations[SuitAt(j)]
        IN  \A k \in 1..Len(pile) :
               /\ pile[k].suit = SuitAt(j)
               /\ RankNumber(pile[k].rank) = k

\* C32: after newGame(n) the current state and every history entry belong
\* to game n, the game number on display, until the next newGame, also when
\* an auto-play timer or a card animation started before the new game
\* completes after it.
C32_SessionBelongsToCurrentGame ==
    /\ current.gameNumber = currentGameNumber
    /\ \A k \in 1..Len(history) : history[k].gameNumber = currentGameNumber

\* The number of cards on the foundations.
FoundationTotal(state) ==
    Len(state.foundations.hearts) + Len(state.foundations.diamonds)
        + Len(state.foundations.clubs) + Len(state.foundations.spades)

\* C33: from any reachable state on, without user input, every automatic
\* move the auto-play loop applies raises the number of cards on the
\* foundations by exactly one, so the loop applies no more moves than there
\* are cards and then stops.
C33_AutoMoveAddsOneFoundationCard ==
    [][(lastCall'.op \in {"autoPlayAdopt", "autoPlayDirect"})
          => /\ FoundationTotal(current') = FoundationTotal(current) + 1
             /\ FoundationTotal(current') <= Len(createDeck)]_vars

\* tryMove, called with the card that lies at the source, and performMove
\* decide alike on a request and give the same state.
AppliersAgree(state, source, destination) ==
    LET r == tryMove(state, [card |-> CardAt(state, source), location |-> source],
                     destination)
        p == performMove(state, source.type, source.index,
                         destination.type, destination.index)
    IN  /\ r.moved <=> p.valid
        /\ r.moved => r.newState = p.newState

\* C34: the two move appliers agree: for every state and every pair of a
\* source that holds a card and a destination, tryMove called with the
\* source's top card or occupant accepts the move exactly when performMove
\* returns a state, and the state tryMove adopts is that state.
C34_MoveAppliersAgree ==
    \A source \in Locations, destination \in Locations :
        CardAt(current, source) # Null
            => AppliersAgree(current, source, destination)

\* C35: for every reachable state S in which tryAutoPlaySingleCard(S)
\* returns another state S', detectAutoPlayMove(S, S') returns a move, and
\* performMove(S, move) returns a state equal to S': replaying the detected
\* move for the animation gives the state the policy computed.
C35_DetectedMoveReplaysPolicy ==
    LET nextState == tryAutoPlaySingleCard(current)
        move == detectAutoPlayMove(current, nextState)
        done == performMove(current, move.fromPile, move.fromIndex,
                            move.toPile, move.toIndex)
    IN  nextState # current
            => /\ move.found
               /\ done.valid
               /\ done.newState = nextState

\* The policy promotes a card from a free cell while a foundation pile
\* holds a card already.
C35_Witness ==
    LET nextState == tryAutoPlaySingleCard(current)
    IN  /\ nextState # current
        /\ detectAutoPlayMove(current, nextState).fromPile = "freecell"
        /\ FoundationTotal(current) > 0

\* What a double-click on the card at a location is to give: the card on
\* its own suit's foundation when canMoveToFoundation accepts it there and
\* it comes from a column or a free cell; else, from a column, the card in
\* the empty free cell of lowest index; else the state as it was.
ExpectedDoubleClick(state, location) ==
    LET card == TopAt(state, location)
        emptyCells == {i \in Cells : state.freeCells[i] = Null}
    IN  IF /\ location.type \in {"tableau", "freecell"}
           /\ canMoveToFoundation(card, state.foundations[card.suit])
        THEN Put(Taken(state, location), Loc("foundation", SlotOf(card.suit)), card)
        ELSE IF location.type = "tableau" /\ emptyCells # {}
        THEN Put(Taken(state, location),
                 Loc("freecell", CHOOSE i \in emptyCells : \A k \in emptyCells : i <= k),
                 card)
        ELSE state

\* C36: handleDoubleClick on the top card of a column or on a free-cell card
\* moves it to its own suit's foundation when canMoveToFoundation accepts
\* it; otherwise, if the card is a column's top card and some free cell is
\* empty, it moves to the empty free cell of lowest index; in every other
\* case (a double-click on a foundation card among them) the state and the
\* history are unchanged.
C36_DoubleClickOutcome ==
    [][(lastCall'.op = "doubleClick")
          => \E location \in Locations :
                /\ location.type = lastCall'.fromType
                /\ TopAt(current, location) # Null
                /\ current' = ExpectedDoubleClick(current, location)
                /\ lastCall'.moved <=> current' # current
                /\ ~lastCall'.moved => history' = history]_vars

\* A double-click has just moved a card to a free cell behind two occupied
\* ones.
C36_Witness ==
    /\ lastCall.op = "doubleClick"
    /\ lastCall.moved
    /\ lastCall.toType = "freecell"
    /\ current.freeCells[0] # Null
    /\ current.freeCells[1] # Null

\* A double-click on a foundation card has just left the state as it was.
C36_WitnessFoundation ==
    /\ lastCall.op = "doubleClick"
    /\ lastCall.fromType = "foundation"
    /\ ~lastCall.moved

\* (seed * 214013 + 2531011) & 0x7FFFFFFF on the bytes of seed: the update
\* of the README and of FreeCellRNG.next.
MaskedNextSeed(b) ==
    LET next == SpecifiedNextSeed(b)
    IN  <<next[1], next[2], next[3], next[4] % 128>>

RECURSIVE MaskedLoop(_, _, _)
\* The loop of the shuffle with the masked update.
MaskedLoop(deck, seed, i) ==
    IF i >= Len(deck) THEN deck
    ELSE LET cardsLeft == Len(deck) - i
             next == MaskedNextSeed(seed)
             rand == (next[3] + 256 * next[4]) % 32768
         IN  MaskedLoop(Swap(deck, (rand % cardsLeft) + 1, cardsLeft), next, i + 1)

MaskedShuffle(deck, dealNum) == Reverse(MaskedLoop(deck, BytesOf(dealNum), 0))

\* A deal number, given as halves, in 1..1,000,000.
IsGameNumber(dealNum) ==
    /\ dealNum.high > 0 \/ dealNum.low >= MIN_GAME_NUMBER
    /\ \/ dealNum.high < MAX_GAME_NUMBER \div Word16
       \/ /\ dealNum.high = MAX_GAME_NUMBER \div Word16
          /\ dealNum.low <= MAX_GAME_NUMBER % Word16

RECURSIVE SeedReachesBit31(_, _)
\* One of the next n seeds of the 32-bit update has bit 31 set.
SeedReachesBit31(seed, n) ==
    /\ n > 0
    /\ LET next == SpecifiedNextSeed(seed)
       IN  next[4] >= 128 \/ SeedReachesBit31(next, n - 1)

\* C37: for every gameNumber in 1..1,000,000 the shuffle run with the seed
\* update masked to 31 bits, (seed * 214013 + 2531011) & 0x7FFFFFFF, gives
\* the same permutation as shuffleFreeCellDeck with its 32-bit update: only
\* bits 16..30 of the seed pick a position.
C37_MaskedSeedGivesSameShuffle ==
    (probe.fn = "shuffleFreeCellDeck" /\ IsGameNumber(probe.dealNum))
        => probe.result = MaskedShuffle(createFullDeck, probe.dealNum)

\* The shuffle was called with a game number whose 32-bit seeds reach bit 31,
\* which the mask clears.
C37_Witness ==
    /\ probe.fn = "shuffleFreeCellDeck"
    /\ IsGameNumber(probe.dealNum)
    /\ probe.dealNum.high > 0
    /\ SeedReachesBit31(BytesOf(probe.dealNum), Len(createFullDeck))

RECURSIVE UndoTimes(_, _)
\* The reducer's state after k UNDO actions.
UndoTimes(state, k) == IF k = 0 THEN state ELSE UndoTimes(ReduceUndo(state), k - 1)

\* C38: from any reachable session state whose history has length k, undo
\* applied k times with nothing in between gives an empty history and, as
\* current state, the deal dealCards(g) of the game most recently started
\* (on mount or by newGame(g)).
C38_UndoAllRestoresDeal ==
    LET undone == UndoTimes(Session, Len(history))
    IN  /\ undone.history = <<>>
        /\ undone.current = dealCards(currentGameNumber)

\* The last input of a run was made, the history holds three states or
\* more, and a free cell was filled or emptied along the way.
C38_Witness ==
    /\ Len(history) >= 3
    /\ userActions = MaxUserActions
    /\ history[1] # current
    /\ \E k \in 1..Len(history) : history[k].freeCells # current.freeCells

\* C39: a game in progress (history not empty, checkWin false) is never
\* replaced by a new deal without the user confirming: the random New Game
\* path and the Set Deal path dispatch NEW_GAME only after the confirmation
\* was shown and answered with OK, and a declined confirmation leaves the
\* current state, the history and the current game number unchanged.
C39_NoNewDealWithoutConfirmation ==
    [][LET inProgress == Len(history) > 0 /\ ~checkWin(current)
       IN  /\ (inProgress /\ history' = <<>> /\ lastCall'.op # "undo")
                 => /\ lastCall'.op \in {"newGame", "setDeal"}
                    /\ lastCall'.srcOk
                    /\ lastCall'.dstOk
           /\ (inProgress /\ lastCall'.op \in {"newGame", "setDeal",
                                               "newGameDeclined", "setDealDeclined"})
                 => lastCall'.srcOk
           /\ lastCall'.op \in {"newGameDeclined", "setDealDeclined"}
                 => /\ inProgress
                    /\ UNCHANGED <<current, history, currentGameNumber>>]_vars

\* The Set Deal path has just replaced a game in progress after the
\* confirmation.
C39_Witness ==
    /\ lastCall.op = "setDeal"
    /\ lastCall.srcOk
    /\ lastCall.dstOk
    /\ history = <<>>

\* The random New Game path has just been declined.
C39_WitnessDeclined ==
    /\ lastCall.op = "newGameDeclined"
    /\ Len(history) > 0


====
